---------------------------- MODULE Spec2Model ----------------------------
(***************************************************************************)
(* Track geometry and collision core of the glider game:                   *)
(*   core/mesh.rs     Mesh, Intersection, intersect_ray_triangle           *)
(*   core/bezier.rs   Point, Row, Bezier                                   *)
(*   core/looping.rs  Loop                                                 *)
(*   core/segment.rs  Segment, triangulate                                 *)
(*   core/course.rs   Course, Tree                                         *)
(*                                                                         *)
(* Numbers.  The source computes in f32.  Here                             *)
(*   - a length is an integer number of units of 50/3 world units, so that *)
(*     the step (50.0), the translation (100.0), the chord lengths (500.0, *)
(*     300.0), the half width (200.0), the cell size (250.0) and the       *)
(*     column offsets (2/3 of the half width) are all integers;            *)
(*   - inside the curve samplers positions, unit vectors and the curve     *)
(*     parameter are fixed-point numbers with Q = 1000 ticks per unit,     *)
(*     every product being rounded as it is formed (Bezier::point keeps    *)
(*     millionths of a unit);                                              *)
(*   - intersect_ray_triangle is computed exactly on rationals.            *)
(* Non-finite f32 values (NaN, infinities) are not represented.            *)
(***************************************************************************)
EXTENDS Integers, Sequences, FiniteSets, TLC

VARIABLES
    segments,        \* Course.segments: sequence of Segment records
    active_segment,  \* Course.active_segment (0-based, as in the source)
    tree,            \* Course.tree.cells: cell -> sequence of <<sid, tid>>
    call,            \* the last call made on the core and what it returned
    edits            \* number of Course::edit calls made so far

vars == <<segments, active_segment, tree, call, edits>>

----------------------------------------------------------------------------
(* Integer helpers.                                                        *)

Abs(a) == IF a < 0 THEN -a ELSE a

Max(a, b) == IF a >= b THEN a ELSE b

Min(a, b) == IF a <= b THEN a ELSE b

Sign(a) == IF a > 0 THEN 1 ELSE IF a < 0 THEN -1 ELSE 0

\* a / b rounded to the nearest integer, b > 0: the rounding of a
\* fixed-point quotient.
RoundDiv(a, b) == (a + b \div 2) \div b

\* f32::floor and f32::ceil of a / b for b > 0.
FloorDiv(a, b) == a \div b

CeilDiv(a, b) == -((-a) \div b)

\* Rust's % on f32 values that are whole numbers: the remainder takes the
\* sign of the dividend.
Rem(a, b) == IF a >= 0 THEN a % b ELSE -((-a) % b)

RECURSIVE Gcd(_, _)
Gcd(a, b) == IF b = 0 THEN a ELSE Gcd(b, a % b)

RECURSIVE SqrtIter(_, _)
SqrtIter(n, x) ==
    LET y == (x + n \div x) \div 2
    IN  IF y >= x THEN x ELSE SqrtIter(n, y)

\* Integer square root (f32::sqrt rounded down to a whole number).
ISqrt(n) == IF n <= 0 THEN 0 ELSE SqrtIter(n, 46341)

\* The elements f[1], f[2], ... as a sequence value: a Vec filled by pushes.
Pushed(f) == f \o << >>

\* The entries of f as a function value: a HashMap filled by inserts.
Inserted(f) == f @@ << >>

----------------------------------------------------------------------------
(* cgmath::Vector3<f32>.                                                   *)

Vec(x, y, z) == [x |-> x, y |-> y, z |-> z]

VZero == Vec(0, 0, 0)

VAdd(a, b) == Vec(a.x + b.x, a.y + b.y, a.z + b.z)

VSub(a, b) == Vec(a.x - b.x, a.y - b.y, a.z - b.z)

VNeg(a) == Vec(-a.x, -a.y, -a.z)

VScale(a, k) == Vec(a.x * k, a.y * k, a.z * k)

\* a * (n / d) with every component rounded.
VMulDiv(a, n, d) ==
    Vec(RoundDiv(a.x * n, d), RoundDiv(a.y * n, d), RoundDiv(a.z * n, d))

Dot(a, b) == a.x * b.x + a.y * b.y + a.z * b.z

Cross(a, b) == Vec(a.y * b.z - a.z * b.y,
                   a.z * b.x - a.x * b.z,
                   a.x * b.y - a.y * b.x)

IsZero(a) == a.x = 0 /\ a.y = 0 /\ a.z = 0

MaxAbs(a) == Max(Abs(a.x), Max(Abs(a.y), Abs(a.z)))

\* Ticks per unit of the fixed-point numbers.
Q == 1000

\* Where the source binds a value with "let" and reads it several times, the
\* value is the parameter of a further operator here, so that it is written
\* (and computed) once.

VDiv(a, k) == Vec(a.x \div k, a.y \div k, a.z \div k)

\* The length of the vector b, rounded down.
VLen(b) == ISqrt(Dot(b, b))

MagnitudeBy(a, k) == k * VLen(VDiv(a, k))

\* InnerSpace::magnitude.  The vector is scaled down first when its squares
\* would leave the integer range.
Magnitude(a) == MagnitudeBy(a, MaxAbs(a) \div 20000 + 1)

\* The vector a, of largest component m, brought to a largest component
\* between 1000 and 10000 (the mantissa of the float).
Mantissa(a, m) ==
    IF m = 0 THEN a
    ELSE IF m > 10000 THEN VDiv(a, m \div 10000 + 1)
    ELSE VScale(a, 10000 \div m)

\* b / len in ticks.  The zero vector (NaN in f32) stays the zero vector.
Unit(b, len) ==
    IF len = 0 THEN VZero
    ELSE Vec(RoundDiv(b.x * Q, len), RoundDiv(b.y * Q, len),
             RoundDiv(b.z * Q, len))

UnitOf(b) == Unit(b, VLen(b))

\* InnerSpace::normalize: a vector of length Q in the direction of a.
Normalize(a) == UnitOf(Mantissa(a, MaxAbs(a)))

----------------------------------------------------------------------------
(* core/mesh.rs: intersect_ray_triangle.                                   *)
(* A rational vector is [num |-> vector, den |-> positive integer].        *)

RatVecBy(v, d, s, g) ==
    [num |-> Vec((s * v.x) \div g, (s * v.y) \div g, (s * v.z) \div g),
     den |-> (s * d) \div g]

\* The vector v / d in lowest terms.
RatVec(v, d) ==
    RatVecBy(v, d, IF d < 0 THEN -1 ELSE 1,
             Gcd(Gcd(Gcd(Abs(v.x), Abs(v.y)), Abs(v.z)), Abs(d)))

Degenerate == [kind |-> "Degenerate"]

Parallel == [kind |-> "Parallel"]

NoIntersection == [kind |-> "None"]

PointAndNormal(p, n) == [kind |-> "PointAndNormal", point |-> p, normal |-> n]

\* A variant of TriangleTest that returns "n.normalize()", not negated.
TriangleTestNormalOfWinding(n, inum, rd, sn, tn, den) ==
    IF sn * Sign(den) < 0 \/ sn * Sign(den) > Abs(den) THEN NoIntersection
    ELSE IF tn * Sign(den) < 0 \/ (sn + tn) * Sign(den) > Abs(den)
      THEN NoIntersection
    ELSE PointAndNormal(RatVec(inum, rd), Normalize(n))

\* intersect_ray_triangle from "if s < 0.0 || s > 1.0": s = sn / den and
\* tt = tn / den, the intersection is inum / rd.
TriangleTest(n, inum, rd, sn, tn, den) ==
    IF sn * Sign(den) < 0 \/ sn * Sign(den) > Abs(den) THEN NoIntersection
    ELSE IF tn * Sign(den) < 0 \/ (sn + tn) * Sign(den) > Abs(den)
      THEN NoIntersection
    ELSE PointAndNormal(RatVec(inum, rd), VNeg(Normalize(n)))

\* intersect_ray_triangle from "let uu = dot(u, u)": w = wnum / rd.
TriangleCoordinates(n, u, v, inum, rd, wnum) ==
    TriangleTest(n, inum, rd,
                 Dot(u, v) * Dot(wnum, v) - Dot(v, v) * Dot(wnum, u),
                 Dot(u, v) * Dot(wnum, u) - Dot(u, u) * Dot(wnum, v),
                 (Dot(u, v) * Dot(u, v) - Dot(u, u) * Dot(v, v)) * rd)

\* intersect_ray_triangle from "let i = r.0 + rr * dir": rr = rn / rd, rd > 0.
PlanePoint(t0, n, u, v, inum, rd) ==
    TriangleCoordinates(n, u, v, inum, rd, VSub(inum, VScale(t0, rd)))

\* A variant of PlaneTest without the test "rr > 1.0": the segment is taken
\* for a half-line from its start.
PlaneTestHalfLine(r, t0, n, u, v, dir, a, b) ==
    IF b = 0 THEN Parallel
    ELSE IF a * Sign(b) < 0 THEN NoIntersection
    ELSE PlanePoint(t0, n, u, v,
                    VAdd(VScale(r[1], Abs(b) \div Gcd(Abs(a), Abs(b))),
                         VScale(dir, (a * Sign(b)) \div Gcd(Abs(a), Abs(b)))),
                    Abs(b) \div Gcd(Abs(a), Abs(b)))

\* intersect_ray_triangle from "if b.abs() < 0.000001": rr = a / b.
PlaneTest(r, t0, n, u, v, dir, a, b) ==
    IF b = 0 THEN Parallel
    ELSE IF a * Sign(b) < 0 \/ a * Sign(b) > Abs(b) THEN NoIntersection
    ELSE PlanePoint(t0, n, u, v,
                    VAdd(VScale(r[1], Abs(b) \div Gcd(Abs(a), Abs(b))),
                         VScale(dir, (a * Sign(b)) \div Gcd(Abs(a), Abs(b)))),
                    Abs(b) \div Gcd(Abs(a), Abs(b)))

\* A variant of NormalTest that tests "b.abs() < 0.000001" before
\* "n == Vector3::zero()".
NormalTestParallelFirst(r, t0, n, u, v, dir) ==
    IF Dot(n, dir) = 0 THEN Parallel
    ELSE IF IsZero(n) THEN Degenerate
    ELSE PlaneTest(r, t0, n, u, v, dir, -Dot(n, VSub(r[1], t0)), Dot(n, dir))

\* intersect_ray_triangle from "if n == Vector3::zero()".
NormalTest(r, t0, n, u, v, dir) ==
    IF IsZero(n) THEN Degenerate
    ELSE PlaneTest(r, t0, n, u, v, dir, -Dot(n, VSub(r[1], t0)), Dot(n, dir))

TriangleEdges(r, t0, u, v) ==
    NormalTest(r, t0, Cross(u, v), u, v, VSub(r[2], r[1]))

\* r = <<start, end>>, t = <<t0, t1, t2>>.  The comparisons of the source
\* on the quotients rr = a / b, s = sn / den, tt = tn / den are made on the
\* numerators and denominators; |b| < 0.000001 is b = 0 on integers.
intersect_ray_triangle(r, t) ==
    TriangleEdges(r, t[1], VSub(t[2], t[1]), VSub(t[3], t[1]))

----------------------------------------------------------------------------
(* Program constants, in units of 50/3 world units.                        *)

\* 0.00001, the value Point::new gives a zero z.  It is below the
\* resolution of the fixed-point numbers: a position carries it as the
\* flag e (e = 1: z is z + 0.00001).
NUDGE == 1

\* An f32 sum keeps the 0.00001 of one operand only while the magnitude of
\* the result is below 200.0 (its ulp is then at most 0.0000153).
ABSORB == 12

\* Tree::new(250.0)
CELL_SIZE == 15

\* Point::new(0.0, 0.0, 0.0, 200.0, 0.0): the half width of the track
WIDTH == 12

\* generate_segments(50.0)
STEP == 3

\* triangulate(&rows[..], 3, fa, ta)
COLS == 3

\* Vector3::new(500.0, 0.0, 0.0) of set_to_straight and set_to_looping,
\* Vector3::new(0.0, 0.0, 500.0) of set_to_180_curve
LEN_500 == 30

\* Vector3::new(300.0, 0.0, 300.0) of set_to_90_curve
LEN_300 == 18

\* Vector3::new(100.0, 0.0, 0.0) and the other offsets of Segment::edit
LEN_100 == 6

\* std::f32::consts::PI in ticks
PI == 3142

\* The cap of the curve parameter t: "t += step / len" stays below it for
\* every curve whose speed len at the end is at least four steps, and the
\* +inf of a division by a zero speed is cut to it.  Past 1.0 the value of t
\* only reaches min(t, 1.0) and the frame of the last row.
T_MAX == 1250

----------------------------------------------------------------------------
(* Trigonometry.                                                           *)

\* f32::cos and f32::sin of an angle in degrees that is a multiple of 90,
\* as fixed-point numbers.
CosDeg(d) == LET m == d % 360
             IN  IF m = 0 THEN Q ELSE IF m = 180 THEN -Q ELSE 0

SinDeg(d) == LET m == d % 360
             IN  IF m = 90 THEN Q ELSE IF m = 270 THEN -Q ELSE 0

\* sin on [0, PI], by Bhaskara's rational approximation (error < 0.002).
SinHalf(x) == LET p == x * (PI - x)
              IN  RoundDiv(16 * p, (5 * PI * PI - 4 * p) \div Q)

\* f32::sin and f32::cos of an angle in fixed-point radians.
Sin(x) == LET m == x % (2 * PI)
          IN  IF m <= PI THEN SinHalf(m) ELSE -SinHalf(m - PI)

Cos(x) == Sin(x + PI \div 2)

----------------------------------------------------------------------------
(* core/bezier.rs: Point, Row, Bezier.                                     *)

\* A position of a Point: a vector with the flag e of the nudge.
Pos(x, y, z, e) == [x |-> x, y |-> y, z |-> z, e |-> e]

\* Point::new
PointNew(x, y, z, e, width, roll) ==
    [pos   |-> IF z = 0 /\ e = 0 THEN Pos(x, y, z, NUDGE) ELSE Pos(x, y, z, e),
     width |-> width,
     roll  |-> roll]

\* Vector3 += and + on a position: the sum of the f32 components.
PosAdd(p, v) ==
    LET z == p.z + v.z
    IN  Pos(p.x + v.x, p.y + v.y, z, IF Abs(z) < ABSORB THEN p.e ELSE 0)

\* Point::rotate_around, for an angle that is a multiple of 90 degrees and a
\* distance in ticks; the result is a position in ticks.
rotate_around(p, angle, distance) ==
    [pos   |-> Vec(p.pos.x * Q + RoundDiv(CosDeg(angle) * distance, Q),
                   p.pos.y * Q,
                   p.pos.z * Q + RoundDiv(SinDeg(angle) * distance, Q)),
     width |-> p.width * Q,
     roll  |-> p.roll * Q]

\* A Point as the curve samplers take it: position, width and roll in
\* ticks (Point::clone).
Ticks(p) == [pos   |-> Vec(p.pos.x * Q, p.pos.y * Q, p.pos.z * Q),
             width |-> p.width * Q,
             roll  |-> p.roll * Q]

\* The rounded product of two fixed-point numbers.
FMul(a, b) == RoundDiv(a * b, Q)

VFMul(a, k) == Vec(FMul(a.x, k), FMul(a.y, k), FMul(a.z, k))

lerp(a, b, t) == FMul(a, Q - t) + FMul(b, t)

\* The product of a length a in ticks and a weight w in millionths, in
\* millionths of a unit: the whole units of a and the rest of a are
\* multiplied apart to stay in the integer range.
MulMicro(a, w) == (a \div Q) * w + RoundDiv((a % Q) * RoundDiv(w, 8), 125)

VMulMicro(v, w) == Vec(MulMicro(v.x, w), MulMicro(v.y, w), MulMicro(v.z, w))

\* Millionths of a unit rounded to ticks.
ToTicks(v) == Vec(RoundDiv(v.x, Q), RoundDiv(v.y, Q), RoundDiv(v.z, Q))

\* v of Bezier::point in millionths of a unit, for the weights dt2 * dt,
\* 3.0 * dt2 * t, 3.0 * dt * t2 and t2 * t in millionths.  Bezier::point is
\* kept at this resolution because generate_segments takes the difference
\* of two points that are 0.002 apart in t.
BezierSum(p, w0, w1, w2, w3) ==
    VAdd(VAdd(VMulMicro(p[1].pos, w0), VMulMicro(p[2].pos, w1)),
         VAdd(VMulMicro(p[3].pos, w2), VMulMicro(p[4].pos, w3)))

\* "if !with_y { v.y = 0.0; }"
WithY(v, with_y) == IF with_y THEN v ELSE [v EXCEPT !.y = 0]

\* Bezier::point; p = <<a, b, c, d>> with positions in ticks, the point in
\* millionths of a unit.
BezierPoint(p, t, with_y) ==
    WithY(BezierSum(p, RoundDiv((Q - t) * (Q - t) * (Q - t), Q),
                    3 * RoundDiv((Q - t) * (Q - t) * t, Q),
                    3 * RoundDiv((Q - t) * t * t, Q),
                    RoundDiv(t * t * t, Q)),
          with_y)

BezierVelocity(p, t, dt, dt2, t2) ==
    VAdd(VAdd(VScale(VFMul(VSub(p[2].pos, p[1].pos), dt2), 3),
              VScale(VFMul(VFMul(VSub(p[3].pos, p[2].pos), dt), t), 6)),
         VScale(VFMul(VSub(p[4].pos, p[3].pos), t2), 3))

\* Bezier::derivative
BezierDerivative(p, t) ==
    BezierVelocity(p, t, Q - t, FMul(Q - t, Q - t), FMul(t, t))

\* The unit vector (0, 1, 0).
Up == Vec(0, Q, 0)

\* A position in ticks rounded to whole units.
ToUnits(v) == Vec(RoundDiv(v.x, Q), RoundDiv(v.y, Q), RoundDiv(v.z, Q))

\* "segments.push(Row { .. })" of Bezier::generate_segments.
BezierPush(p, t, py, ta, b) ==
    [pos      |-> py,
     binormal |-> b,
     normal   |-> Normalize(Cross(b, ta)),
     width    |-> lerp(p[2].width, p[3].width, t),
     roll     |-> lerp(p[2].roll, p[3].roll, t),
     t        |-> t]

\* "b.y = b.y.abs()".  The cross product of the two horizontal vectors ta
\* and p2 + p is vertical; the nudge of z keeps it from vanishing in the
\* source, so where it vanishes at the resolution used here b is Up.
BezierBinormal(b0) == IF IsZero(b0) THEN Up ELSE [b0 EXCEPT !.y = Abs(b0.y)]

BezierFrame(p, t, py, sum, ta) ==
    BezierPush(p, t, py, ta, BezierBinormal(Normalize(Cross(ta, sum))))

\* py, p and p2 of the source; "(p2 - p).normalize()" and "p2 + p".
BezierSamples(p, t, py, pp, p2) ==
    BezierFrame(p, t, ToTicks(py), ToTicks(VAdd(p2, pp)),
                Normalize(VSub(p2, pp)))

\* A variant of BezierRow without "t.min(1.0)".
BezierRowUnclamped(p, t) ==
    BezierSamples(p, t, BezierPoint(p, t, TRUE), BezierPoint(p, t, FALSE),
                  BezierPoint(p, t + 2, FALSE))

\* The Row pushed by one pass of the loop of Bezier::generate_segments.
BezierRow(p, t) ==
    BezierSamples(p, t, BezierPoint(p, Min(t, Q), TRUE),
                  BezierPoint(p, Min(t, Q), FALSE),
                  BezierPoint(p, t + 2, FALSE))

\* t + step / len
Advance(t, step, len) ==
    IF len = 0 THEN T_MAX ELSE Min(T_MAX, t + RoundDiv(step * Q, len))

\* "let len = deriv.magnitude(); .. t += step / len;"
BezierAdvance(p, step, t) ==
    Advance(t, step, Magnitude(BezierDerivative(p, t)))

\* The values t takes in "loop { ... }" of Bezier::generate_segments: a Row
\* is pushed at t, the loop breaks when t >= 1.0, else t += step / len.
RECURSIVE BezierTimes(_, _, _, _)
BezierTimes(p, step, t, ts) ==
    IF t >= Q THEN Append(ts, t)
    ELSE BezierTimes(p, step, BezierAdvance(p, step, t), Append(ts, t))

BezierRows(p, ts) == Pushed([k \in 1..Len(ts) |-> BezierRow(p, ts[k])])

\* Bezier::generate_segments; every Row also records the t it was sampled at.
BezierGenerateSegments(p, step) == BezierRows(p, BezierTimes(p, step, 0, << >>))

----------------------------------------------------------------------------
(* core/looping.rs: Loop.                                                  *)

\* Loop::new; a and b are the end Points in ticks, height is in units.
LoopNew(a, b, height, rotation) ==
    [angle  |-> 90 - rotation,
     width  |-> a.width + b.width,
     points |-> <<a, b>>,
     radius |-> height]

\* "segments.push(Row { .. })" of Loop::generate_segments: cu and su are
\* the cosine and the sine of u, f = l / PI, radius is in ticks.
LoopPush(lp, t, radius, f, cu, su, ox, oz) ==
    [pos      |-> Vec(lp.points[1].pos.x
                        + FMul(FMul(SinDeg(lp.angle), cu), radius)
                        + lerp(0, ox, f),
                      lp.points[1].pos.y + FMul(su, radius) + radius,
                      lp.points[1].pos.z
                        + FMul(FMul(CosDeg(lp.angle), cu), radius)
                        + lerp(0, oz, f)),
     binormal |-> VNeg(Vec(FMul(SinDeg(lp.angle), cu), su,
                           FMul(CosDeg(lp.angle), cu))),
     normal   |-> Vec(-CosDeg(lp.angle), 0, -SinDeg(lp.angle)),
     width    |-> lerp(lp.points[2].width, lp.points[1].width, f),
     roll     |-> lerp(lp.points[2].roll, lp.points[1].roll, f),
     t        |-> t]

\* th = t.min(length) / radius; l = th / 2, u = th - PI / 2.
LoopAt(lp, t, radius, th) ==
    LoopPush(lp, t, radius, RoundDiv((th \div 2) * Q, PI),
             Cos(th - PI \div 2), Sin(th - PI \div 2),
             FMul(SinDeg(lp.angle - 90), lp.width),
             FMul(CosDeg(lp.angle - 90), lp.width))

\* The Row pushed by one pass of the loop of Loop::generate_segments; t and
\* length are in ticks.
LoopRow(lp, t, length) ==
    LoopAt(lp, t, lp.radius * Q, RoundDiv(Min(t, length) * Q, lp.radius * Q))

\* A variant of LoopTimes without "if t >= length { break; }": the loop
\* runs while t < length * 2.0.
LoopTimesToEnd(step, length) ==
    Pushed([k \in 1..(IF length > 0 THEN CeilDiv(2 * length, step) ELSE 0) |->
                (k - 1) * step])

\* The values t takes in "while t < length * 2.0" of Loop::generate_segments:
\* a Row is pushed at t, the loop breaks when t >= length, else t += step.
\* The rows are those at t = 0, step, 2 step, ... up to the first t >= length
\* (the break), as far as t < length * 2.0 (the loop header, which comes
\* first only when one step leads from below length to length * 2.0); with
\* length = 0 the loop is not entered.
LoopTimes(step, length) ==
    Pushed([k \in 1..(IF length > 0
                        THEN Min(CeilDiv(length, step) + 1,
                                 CeilDiv(2 * length, step))
                        ELSE 0) |->
                (k - 1) * step])

LoopRows(lp, length, ts) ==
    Pushed([k \in 1..Len(ts) |-> LoopRow(lp, ts[k], length)])

LoopSteps(lp, step, length) == LoopRows(lp, length, LoopTimes(step, length))

\* Loop::generate_segments; step in ticks, length = radius * PI * 2.
LoopGenerateSegments(lp, step) ==
    LoopSteps(lp, step, RoundDiv(lp.radius * Q * PI, Q) * 2)

----------------------------------------------------------------------------
(* core/segment.rs: triangulate.                                           *)

\* The cols + 1 vertices from pos + o to pos - o.
RowColumns(pos, o, step, cols) ==
    Pushed([c \in 1..(cols + 1) |->
                ToUnits(VAdd(pos, VSub(o, VScale(step, c - 1))))])

\* o = (binormal * cos(90 + roll) + normal * sin(90 + roll)) * width; rolls
\* are whole multiples of 90 degrees.
RowOffset(s, normal, roll) ==
    VFMul(VAdd(VFMul(s.binormal, CosDeg(90 + roll)),
               VFMul(normal, SinDeg(90 + roll))), s.width)

RowSpan(s, o, cols) == RowColumns(s.pos, o, VMulDiv(o, 2, cols), cols)

\* The vertices pushed for the row s at position index (0-based) of rows.
RowVertices(s, index, last, cols, fa, ta) ==
    RowSpan(s,
            RowOffset(s,
                      IF index = 0
                        THEN Vec(-CosDeg(90 + fa), 0, -SinDeg(90 + fa))
                      ELSE IF index = last
                        THEN Vec(-CosDeg(90 + ta), 0, -SinDeg(90 + ta))
                      ELSE s.normal,
                      RoundDiv(s.roll, Q)),
            cols)

\* A variant of QuadIndices that takes the vertices of the second triangle
\* of a column one row further on, "cols + 1 + cols + 1".
QuadIndicesRowAhead(i, b, cols, len) ==
    << i + b,
       (i + b + cols + 1) % len,
       (i + b + 1) % len,
       (i + b + cols + 1) % len,
       (i + b + cols + 1 + cols + 2) % len,
       (i + b + 1) % len >>

\* The six indices pushed for column b of the pass of the while loop that
\* starts at vertex i.
QuadIndices(i, b, cols, len) ==
    << i + b,
       (i + b + cols + 1) % len,
       (i + b + 1) % len,
       (i + b + cols + 1) % len,
       (i + b + cols + 2) % len,
       (i + b + 1) % len >>

\* The vertices of triangulate: cols + 1 for every row.
TriangulateVertices(rows, cols, fa, ta, last) ==
    Pushed([k \in 1..(Len(rows) * (cols + 1)) |->
                RowVertices(rows[((k - 1) \div (cols + 1)) + 1],
                            (k - 1) \div (cols + 1), last, cols, fa, ta)
                    [((k - 1) % (cols + 1)) + 1]])

\* The indices of triangulate: the while loop runs for i = 0, cols + 1, ...
\* while i < l, pushing six indices for each of the cols columns.
TriangulateIndices(cols, len, passes) ==
    Pushed([k \in 1..(passes * cols * 6) |->
                QuadIndices(((k - 1) \div (cols * 6)) * (cols + 1),
                            ((k - 1) % (cols * 6)) \div 6, cols, len)
                    [((k - 1) % 6) + 1]])

\* A variant of TriangulatePasses with "let l = vertices.len()": a pass of
\* the while loop for the last row as well.
TriangulatePassesAll(cols, len) == CeilDiv(len, cols + 1)

\* "let l = vertices.len() - (cols + 1)", with no row at all l = 0.
TriangulatePasses(cols, len) ==
    CeilDiv(IF len < cols + 1 THEN 0 ELSE len - (cols + 1), cols + 1)

TriangulateFrom(vertices, cols) ==
    << vertices,
       TriangulateIndices(cols, Len(vertices),
                          TriangulatePasses(cols, Len(vertices))) >>

\* triangulate: <<vertices, indices>>.
triangulate(rows, cols, fa, ta) ==
    TriangulateFrom(
        TriangulateVertices(rows, cols, fa, ta,
                            IF Len(rows) = 0 THEN 0 ELSE Len(rows) - 1),
        cols)

----------------------------------------------------------------------------
(* core/mesh.rs: Mesh.                                                     *)

\* Mesh::from_raw.  indices.chunks(3) with a length that is a multiple of 3.
MeshFromRaw(vertices, indices) ==
    [vectors   |-> vertices,
     indices   |-> indices,
     triangles |-> Pushed([k \in 1..(Len(indices) \div 3) |->
                        <<indices[3 * k - 2], indices[3 * k - 1], indices[3 * k]>>]),
     color     |-> <<1, 1, 1, 1>>,
     buffer    |-> << >>,
     slice     |-> << >>]

\* Mesh::set_color
MeshSetColor(mesh, color) ==
    [mesh EXCEPT !.buffer = << >>, !.slice = << >>, !.color = color]

\* Mesh::is_rendered.  The Option of buffer and of slice is a sequence of
\* at most one element.
is_rendered(mesh) == mesh.buffer # << >>

\* Mesh::render: the vertex buffer holds the position and the colour of
\* every vertex, the slice the indices.
MeshRender(mesh) ==
    [mesh EXCEPT !.buffer = << Pushed([k \in 1..Len(mesh.vectors) |->
                                   [pos |-> mesh.vectors[k],
                                    color |-> mesh.color]]) >>,
                 !.slice = << mesh.indices >>]

\* The triangle of three vertex indices (0-based, as in the source).
Corners(mesh, i) ==
    <<mesh.vectors[i[1] + 1], mesh.vectors[i[2] + 1], mesh.vectors[i[3] + 1]>>

\* Mesh::triangles
MeshTriangles(mesh) ==
    Pushed([k \in 1..Len(mesh.triangles) |-> Corners(mesh, mesh.triangles[k])])

\* The outcome of an indexing that is out of range: the thread panics.
Panic == [kind |-> "Panic"]

\* Option::None of Mesh::intersect_ray
NoHit == [kind |-> "NoHit"]

\* A variant of SomePointAndNormal that hands a Parallel outcome on like a
\* hit, which ends the scan of the grid at that pair.
SomeUnlessParallel(p) ==
    IF p.kind \in {"PointAndNormal", "Parallel"} THEN p ELSE NoHit

\* "if let Intersection::PointAndNormal(p, n) = .. { Some((p, n)) } else { None }"
SomePointAndNormal(p) == IF p.kind = "PointAndNormal" THEN p ELSE NoHit

MeshIntersectTriangle(mesh, ray, indices) ==
    IF \E k \in 1..3 : indices[k] >= Len(mesh.vectors) THEN Panic
    ELSE SomePointAndNormal(intersect_ray_triangle(ray, Corners(mesh, indices)))

\* Mesh::intersect_ray: the hit, NoHit, or Panic when self.triangles[tid] or
\* a self.vectors[..] is out of range.
MeshIntersectRay(mesh, ray, tid) ==
    IF tid >= Len(mesh.triangles) THEN Panic
    ELSE MeshIntersectTriangle(mesh, ray, mesh.triangles[tid + 1])

----------------------------------------------------------------------------
(* core/segment.rs: Segment.                                               *)

\* The four set_to_* methods: the angle and the chord each type is given.
TypeAngle(typ) == IF typ \in {"Curve180", "Curve90"} THEN 180 ELSE 0

\* A variant of TypeChord that gives every type the chord of the 90 degree
\* curve's legs (300.0).
TypeChordShort(typ) == Vec(LEN_300, 0, 0)

TypeChord(typ) ==
    CASE typ = "Straight" -> Vec(LEN_500, 0, 0)
      [] typ = "Curve180" -> Vec(0, 0, LEN_500)
      [] typ = "Curve90"  -> Vec(LEN_300, 0, LEN_300)
      [] typ = "Looping"  -> Vec(LEN_500, 0, 0)

\* A variant of set_to that puts the end "from" at the origin whichever end
\* is active.
set_toFromOrigin(s, typ, origin) ==
    [s EXCEPT !.angle = TypeAngle(typ),
              !.from.roll = 0,
              !.to.roll = 0,
              !.typ = typ,
              !.from.pos = origin,
              !.to.pos = PosAdd(origin, TypeChord(typ))]

\* set_to_straight, set_to_180_curve, set_to_90_curve, set_to_looping
set_to(s, typ, origin) ==
    LET t == [s EXCEPT !.angle = TypeAngle(typ),
                       !.from.roll = 0,
                       !.to.roll = 0,
                       !.typ = typ]
    IN  IF s.active_point
          THEN [t EXCEPT !.to.pos = origin,
                         !.from.pos = PosAdd(origin, VNeg(TypeChord(typ)))]
          ELSE [t EXCEPT !.from.pos = origin,
                         !.to.pos = PosAdd(origin, TypeChord(typ))]

\* r.transform_vector(v) for the rotation by -angle degrees about the y
\* axis, angle being 90 or -90.
RotateY(v, angle) ==
    IF angle = 90 THEN Vec(-v.z, v.y, v.x) ELSE Vec(v.z, v.y, -v.x)

\* A variant of rotate that turns the piece about the point midway between
\* the origin and the world's origin.
rotateOffCentre(s, origin, angle) ==
    [s EXCEPT !.angle = Rem(s.angle + angle, 360),
              !.from.pos = PosAdd(origin, RotateY(VSub(s.from.pos, VNeg(origin)), angle)),
              !.to.pos   = PosAdd(origin, RotateY(VSub(s.to.pos, VNeg(origin)), angle))]

\* Segment::rotate
rotate(s, origin, angle) ==
    [s EXCEPT !.angle = Rem(s.angle + angle, 360),
              !.from.pos = PosAdd(origin, RotateY(VSub(s.from.pos, origin), angle)),
              !.to.pos   = PosAdd(origin, RotateY(VSub(s.to.pos, origin), angle))]

\* A variant of translate that takes the active end for the other end.
translateOtherEnd(s, offset, invert) ==
    IF s.active_point
      THEN IF invert THEN [s EXCEPT !.to.pos = PosAdd(s.to.pos, offset)]
                     ELSE [s EXCEPT !.from.pos = PosAdd(s.from.pos, offset)]
      ELSE IF invert THEN [s EXCEPT !.from.pos = PosAdd(s.from.pos, offset)]
                     ELSE [s EXCEPT !.to.pos = PosAdd(s.to.pos, offset)]

\* Segment::translate
translate(s, offset, invert) ==
    IF s.active_point
      THEN IF invert THEN [s EXCEPT !.from.pos = PosAdd(s.from.pos, offset)]
                     ELSE [s EXCEPT !.to.pos = PosAdd(s.to.pos, offset)]
      ELSE IF invert THEN [s EXCEPT !.to.pos = PosAdd(s.to.pos, offset)]
                     ELSE [s EXCEPT !.from.pos = PosAdd(s.from.pos, offset)]

\* Point::new(b.x, b.y, b.z, p.width, p.roll) for b = p.pos + d, in ticks.
Moved(p, d) == [pos   |-> VAdd(Ticks(p).pos, d),
                width |-> p.width * Q,
                roll  |-> p.roll * Q]

\* The SegmentType::Curve180 arm: us = u * s in ticks.
Curve180Points(s, us) ==
    << Moved(s.from, VNeg(us)), Moved(s.to, VNeg(us)),
       Rem(s.angle + 180, 360), s.angle >>

\* The SegmentType::Curve90 arm: v = to - from, s = 0.55228 (552.28 ticks).
Curve90Points(s, v) ==
    IF s.angle = 0 \/ s.angle = 180
      THEN << Moved(s.from, VMulDiv(Vec(v.x, 0, 0), 55228, 100)),
              Moved(s.to, VMulDiv(Vec(0, 0, -v.z), 55228, 100)),
              s.angle + 180, Rem(s.angle + 270, 360) >>
      ELSE << Moved(s.from, VMulDiv(Vec(0, 0, v.z), 55228, 100)),
              Moved(s.to, VMulDiv(Vec(-v.x, 0, 0), 55228, 100)),
              s.angle + 180, Rem(s.angle + 270, 360) >>

\* The SegmentType::Straight arm: d in ticks.
StraightPoints(s, d) ==
    << rotate_around(s.from, s.angle, RoundDiv(d, 2)),
       rotate_around(s.to, s.angle + 180, RoundDiv(d, 2)),
       s.angle, s.angle >>

\* Segment::control_points: <<b, c, fa, ta>>, b and c in ticks.
control_points(s) ==
    CASE s.typ = "Curve180" ->
           Curve180Points(s, VMulDiv(VScale(Vec(-(s.to.pos.z - s.from.pos.z), 0,
                                                s.to.pos.x - s.from.pos.x), Q),
                                     2, 3))
      [] s.typ = "Curve90" -> Curve90Points(s, VSub(s.to.pos, s.from.pos))
      [] s.typ = "Straight" ->
           StraightPoints(s, RoundDiv(Max(Abs(s.from.pos.x - s.to.pos.x),
                                          Abs(s.from.pos.z - s.to.pos.z))
                                        * Q * 133, 100))
      [] s.typ = "Looping" ->
           << Ticks(s.from), Ticks(s.to), s.angle, s.angle >>

\* The height Segment::generate hands to Loop::new.
LoopHeight(s) ==
    IF s.angle = 0 \/ s.angle = 180
      THEN Abs(s.from.pos.x - s.to.pos.x)
      ELSE Abs(s.from.pos.z - s.to.pos.z)

\* "Bezier::new(.., b, c, ..).generate_segments(50.0)" for the control
\* points cp: <<rows, fa, ta>>.
BezierOf(s, cp) ==
    << BezierGenerateSegments(<<Ticks(s.from), cp[1], cp[2], Ticks(s.to)>>,
                              STEP * Q),
       cp[3], cp[4] >>

\* The rows and the two end angles Segment::generate computes: <<rows, fa, ta>>.
GenerateRows(s) ==
    IF s.typ = "Looping"
      THEN << LoopGenerateSegments(
                  LoopNew(Ticks(s.from), Ticks(s.to), LoopHeight(s), s.angle),
                  STEP * Q),
              -s.angle, -s.angle >>
      ELSE BezierOf(s, control_points(s))

\* A variant of GenerateMesh that replaces the vertices and the indices of
\* the mesh in place: the buffer and the slice stay as they were.
GenerateMeshInPlace(s, rows, vi) ==
    [s EXCEPT !.mesh = [MeshFromRaw(vi[1], vi[2]) EXCEPT
                            !.color = <<1, 1, 0, 1>>,
                            !.buffer = s.mesh.buffer,
                            !.slice = s.mesh.slice],
              !.rows = rows]

\* "self.mesh = Mesh::from_raw(vertices, indices); self.mesh.set_color(..)"
GenerateMesh(s, rows, vi) ==
    [s EXCEPT !.mesh = MeshSetColor(MeshFromRaw(vi[1], vi[2]), <<1, 1, 0, 1>>),
              !.rows = rows]

GenerateFrom(s, r) == GenerateMesh(s, r[1], triangulate(r[1], COLS, r[2], r[3]))

\* Segment::generate
generate(s) == GenerateFrom(s, GenerateRows(s))

\* Segment::new
SegmentNew(from) ==
    generate(set_to([from         |-> from,
                     to           |-> from,
                     angle        |-> 0,
                     active_point |-> FALSE,
                     typ          |-> "Straight",
                     rows         |-> <<>>,
                     mesh         |-> MeshFromRaw(<<>>, <<>>)],
                    "Straight", from.pos))

\* The keys Segment::edit reads.
EditKeys == {"G", "Key1", "Key2", "Key3", "Key4", "U", "O", "I", "K", "J", "L"}

\* A Keyboard: the keys for which was_pressed and is_pressed answer true.
Keyboard(was, is) == [was_pressed |-> was, is_pressed |-> is]

\* The keys of the ten "if keyboard.was_pressed(key) { op; self.generate(); }"
\* of Segment::edit that follow the toggle of G, in the order of the source.
EditOrder == <<"Key1", "Key2", "Key3", "Key4", "U", "O", "I", "K", "J", "L">>

\* "self.translate(offset, false); if keyboard.is_pressed(Key::LShift) {
\* self.translate(offset, true); }"
Translate(s, kb, offset) ==
    IF "LShift" \in kb.is_pressed
      THEN translate(translate(s, offset, FALSE), offset, TRUE)
      ELSE translate(s, offset, FALSE)

\* The operation of the i-th of these blocks.
EditOperation(s, kb, origin, i) ==
    CASE i = 1  -> set_to(s, "Straight", origin)
      [] i = 2  -> set_to(s, "Curve90", origin)
      [] i = 3  -> set_to(s, "Curve180", origin)
      [] i = 4  -> set_to(s, "Looping", origin)
      [] i = 5  -> rotate(s, origin, -90)
      [] i = 6  -> rotate(s, origin, 90)
      [] i = 7  -> Translate(s, kb, Vec(LEN_100, 0, 0))
      [] i = 8  -> Translate(s, kb, Vec(-LEN_100, 0, 0))
      [] i = 9  -> Translate(s, kb, Vec(0, 0, -LEN_100))
      [] i = 10 -> Translate(s, kb, Vec(0, 0, LEN_100))

\* A variant of EditBlock that regenerates after a retype only: a rotation
\* or a translation leaves the rows and the mesh as they were.
EditBlockRetypeOnly(s, kb, origin, i) ==
    IF EditOrder[i] \in kb.was_pressed
      THEN IF i <= 4 THEN generate(EditOperation(s, kb, origin, i))
           ELSE EditOperation(s, kb, origin, i)
      ELSE s

\* The i-th block.
EditBlock(s, kb, origin, i) ==
    IF EditOrder[i] \in kb.was_pressed
      THEN generate(EditOperation(s, kb, origin, i))
      ELSE s

\* The blocks from the i-th on.
RECURSIVE EditBlocks(_, _, _, _)
EditBlocks(s, kb, origin, i) ==
    IF i > Len(EditOrder) THEN s
    ELSE EditBlocks(EditBlock(s, kb, origin, i), kb, origin, i + 1)

\* "let origin = if self.active_point { self.to.pos } else { self.from.pos }"
EditFrom(s, kb) ==
    EditBlocks(s, kb, IF s.active_point THEN s.to.pos ELSE s.from.pos, 1)

\* A variant of SegmentEdit whose toggle exchanges the two ends as well.
SegmentEditExchanging(s, kb) ==
    EditFrom(IF "G" \in kb.was_pressed
               THEN [s EXCEPT !.active_point = ~s.active_point,
                              !.from = s.to, !.to = s.from]
               ELSE s,
             kb)

\* Segment::edit
SegmentEdit(s, kb) ==
    EditFrom(IF "G" \in kb.was_pressed
               THEN [s EXCEPT !.active_point = ~s.active_point] ELSE s,
             kb)

\* Segment::start_point
SegmentStartPoint(s) == s.from.pos

----------------------------------------------------------------------------
(* core/course.rs: Tree.                                                   *)

\* Tree::new: no cells.
TreeNew == << >>

MinOf3(a, b, c) == Min(Min(a, b), c)

MaxOf3(a, b, c) == Max(Max(a, b), c)

\* The inclusive range of cells Tree::insert computes for the triangle t:
\* <<ix, iy, iz, mx, my, mz>>.
TriangleCells(t) ==
    << FloorDiv(MinOf3(t[1].x, t[2].x, t[3].x), CELL_SIZE),
       FloorDiv(MinOf3(t[1].y, t[2].y, t[3].y), CELL_SIZE),
       FloorDiv(MinOf3(t[1].z, t[2].z, t[3].z), CELL_SIZE),
       CeilDiv(MaxOf3(t[1].x, t[2].x, t[3].x), CELL_SIZE),
       CeilDiv(MaxOf3(t[1].y, t[2].y, t[3].y), CELL_SIZE),
       CeilDiv(MaxOf3(t[1].z, t[2].z, t[3].z), CELL_SIZE) >>

\* The inclusive range of cells Tree::intersect_ray computes for the ray.
RayCells(ray) ==
    << FloorDiv(Min(ray[1].x, ray[2].x), CELL_SIZE),
       FloorDiv(Min(ray[1].y, ray[2].y), CELL_SIZE),
       FloorDiv(Min(ray[1].z, ray[2].z), CELL_SIZE),
       CeilDiv(Max(ray[1].x, ray[2].x), CELL_SIZE),
       CeilDiv(Max(ray[1].y, ray[2].y), CELL_SIZE),
       CeilDiv(Max(ray[1].z, ray[2].z), CELL_SIZE) >>

\* The cells "for x in ix..mx + 1 { for y in iy..my + 1 { for z in iz..mz + 1"
\* visits.
CellsOf(r) == (r[1]..r[4]) \X (r[2]..r[5]) \X (r[3]..r[6])

\* The pairs Tree::insert pushes to the cell c: one for every triangle
\* whose range of cells holds c.
PushedTo(c, ranges, id) ==
    SelectSeq([i \in 1..Len(ranges) |-> <<id, i - 1>>],
              LAMBDA p : c \in ranges[p[2] + 1])

InsertRanges(cells, ranges, id) ==
    Inserted([c \in (DOMAIN cells) \cup UNION {ranges[i] : i \in 1..Len(ranges)} |->
                 (IF c \in DOMAIN cells THEN cells[c] ELSE << >>)
                     \o PushedTo(c, ranges, id)])

InsertTriangles(cells, triangles, id) ==
    InsertRanges(cells,
                 Pushed([i \in 1..Len(triangles) |->
                             CellsOf(TriangleCells(triangles[i]))]),
                 id)

\* Tree::insert.  The pairs (id, i) are pushed triangle by triangle, so a
\* cell receives them in the order of i.
TreeInsert(cells, s, id) == InsertTriangles(cells, MeshTriangles(s.mesh), id)

\* Tree::remove: the body is two TODO comments.
TreeRemove(cells, s) == cells

CellOrderOf(r, ny, nz) ==
    Pushed([k \in 1..((r[4] - r[1] + 1) * ny * nz) |->
                << r[1] + ((k - 1) \div (ny * nz)),
                   r[2] + (((k - 1) \div nz) % ny),
                   r[3] + ((k - 1) % nz) >>])

\* The cells of the range r in the order of the three nested for loops.
CellOrder(r) == CellOrderOf(r, r[5] - r[2] + 1, r[6] - r[3] + 1)

\* "if let Some(t) = .. { return Some(t); }" inside a for loop, for the
\* outcomes the passes of the loop would have one after the other: the loop
\* ends at the first outcome that is a hit (or at the first panic).
FirstOf(found) == IF found = << >> THEN NoHit ELSE Head(found)

FirstSome(outcomes) ==
    FirstOf(SelectSeq(outcomes, LAMBDA t : t.kind # "NoHit"))

\* "segments[sid].mesh.intersect_ray(ray, tid)"
PairIntersectRay(pair, ray, segs) ==
    IF pair[1] >= Len(segs) THEN Panic
    ELSE MeshIntersectRay(segs[pair[1] + 1].mesh, ray, pair[2])

\* "for &(sid, tid) in pairs"
ScanPairs(pairs, ray, segs) ==
    FirstSome(Pushed([k \in 1..Len(pairs) |->
                          PairIntersectRay(pairs[k], ray, segs)]))

\* "if let Some(pairs) = self.cells.get(&(x, y, z))"
CellIntersectRay(cells, c, ray, segs) ==
    IF c \in DOMAIN cells THEN ScanPairs(cells[c], ray, segs) ELSE NoHit

\* The three nested for loops over the cells, in the order order.
ScanCells(cells, order, ray, segs) ==
    FirstSome(Pushed([j \in 1..Len(order) |->
                          CellIntersectRay(cells, order[j], ray, segs)]))

\* Tree::intersect_ray
TreeIntersectRay(cells, ray, segs) ==
    ScanCells(cells, CellOrder(RayCells(ray)), ray, segs)

----------------------------------------------------------------------------
(* core/course.rs: Course.                                                 *)

\* "let mut tree = Tree::new(250.0); tree.insert(&c, 0);" and the Course
\* returned for the first segment c: <<segments, active_segment, tree>>.
CourseOf(c) == << <<c>>, 0, TreeInsert(TreeNew, c, 0) >>

\* Course::new
CourseNew == CourseOf(SegmentNew(PointNew(0, 0, 0, 0, WIDTH, 0)))

\* A variant of CourseEdit without the test of the active index: an index
\* past the end edits the last piece.
CourseEditLast(segs, active, kb) ==
    IF Len(segs) = 0 THEN segs
    ELSE [segs EXCEPT ![Min(active + 1, Len(segs))] =
              SegmentEdit(segs[Min(active + 1, Len(segs))], kb)]

\* Course::edit: the segments after the call.
CourseEdit(segs, active, kb) ==
    IF Len(segs) > active
      THEN [segs EXCEPT ![active + 1] = SegmentEdit(segs[active + 1], kb)]
      ELSE segs

\* Course::intersect_ray
CourseIntersectRay(cells, segs, ray) == TreeIntersectRay(cells, ray, segs)

\* Course::start_point
CourseStartPoint(segs) ==
    IF Len(segs) = 0 THEN Panic ELSE SegmentStartPoint(segs[1])

----------------------------------------------------------------------------
(* The editing and the physics collaborators.                              *)

\* Course::edit calls in one run.
MaxEdits == 2

\* The keyboards handed to Course::edit: nothing pressed, or one of the
\* keys G (toggle the active end), I and K (move the active end along x),
\* U (rotate) and Key4 (make the piece a looping) pressed in this frame.
Keyboards ==
    {Keyboard({}, {})}
      \cup {Keyboard({k}, {k}) : k \in {"G", "I", "K", "U", "Key4"}}

\* The segments handed to Course::intersect_ray: four vertical probes from
\* y = 1000 down to y = -1000 (60 units), a horizontal one in the plane of
\* the first piece, and a slanted one.
ProbeXZ == {<<1, 1>>, <<29, 8>>, <<8, -27>>, <<16, -8>>}

Rays == {<<Vec(p[1], 60, p[2]), Vec(p[1], -60, p[2])>> : p \in ProbeXZ}
          \cup {<<Vec(-5, 0, 1), Vec(40, 0, 1)>>,
                <<Vec(26, 13, 1), Vec(4, -2, 1)>>}

NoCall == [op |-> "new", arg |-> << >>, result |-> << >>]

Panicked == call.result = Panic

\* A variant of Edit that indexes the edited piece anew.
EditReindexing(kb) ==
    /\ ~Panicked
    /\ edits < MaxEdits
    /\ segments' = CourseEdit(segments, active_segment, kb)
    /\ tree' = TreeInsert(TreeNew, segments'[active_segment + 1], active_segment)
    /\ call' = [op |-> "edit", arg |-> kb, result |-> << >>]
    /\ edits' = edits + 1
    /\ UNCHANGED active_segment

Init ==
    \E course \in {CourseNew} :
        /\ segments = course[1]
        /\ active_segment = course[2]
        /\ tree = course[3]
        /\ call = NoCall
        /\ edits = 0

Edit(kb) ==
    /\ ~Panicked
    /\ edits < MaxEdits
    /\ segments' = CourseEdit(segments, active_segment, kb)
    /\ call' = [op |-> "edit", arg |-> kb, result |-> << >>]
    /\ edits' = edits + 1
    /\ UNCHANGED <<active_segment, tree>>

IntersectRay(ray) ==
    /\ ~Panicked
    /\ call' = [op |-> "intersect_ray", arg |-> ray,
                result |-> CourseIntersectRay(tree, segments, ray)]
    /\ UNCHANGED <<segments, active_segment, tree, edits>>

StartPoint ==
    /\ ~Panicked
    /\ call' = [op |-> "start_point", arg |-> << >>,
                result |-> CourseStartPoint(segments)]
    /\ UNCHANGED <<segments, active_segment, tree, edits>>

Next ==
    \/ \E kb \in Keyboards : Edit(kb)
    \/ \E ray \in Rays : IntersectRay(ray)
    \/ StartPoint

Spec == Init /\ [][Next]_vars

----------------------------------------------------------------------------
(* Two further specifications.                                             *)

\* The largest active index a Course is given in SpecGuard.
MaxActive == 2

\* Course values for Course::edit's test "self.segments.len() >
\* self.active_segment": no piece or the piece of Course::new, and an active
\* index from 0 to MaxActive.  Course::new only ever produces one piece and
\* the index 0; the other values are the ones the test is written for.
InitGuard ==
    \E course \in {CourseNew} :
        /\ segments \in {<< >>, course[1]}
        /\ active_segment \in 0..MaxActive
        /\ tree = course[3]
        /\ call = NoCall
        /\ edits = 0

SpecGuard == InitGuard /\ [][Next]_vars

\* The largest coordinate of a corner of a triangle in SpecTri.
TriMax == 2

\* The triangles <<t0, t1, t2>> with t0 at the origin and t1, t2 on the
\* lattice 0..TriMax in each coordinate; t1 = t0, t2 = t0, t1 = t2 and
\* collinear corners are among them.
TriCorners == {Vec(x, y, z) : x \in 0..TriMax, y \in 0..TriMax, z \in 0..TriMax}

Triangles == {<<VZero, t1, t2>> : t1 \in TriCorners, t2 \in TriCorners}

\* The segments <<start, end>> between five points below, above, beside and
\* in the planes of the triangles; start = end is among them.
TriRayEnds ==
    {Vec(0, 0, -1), Vec(1, 1, -1), Vec(1, 1, 1), Vec(0, 1, 3), Vec(2, 0, 0)}

TriRays == TriRayEnds \X TriRayEnds

\* The arguments of one call of intersect_ray_triangle.
InitTri ==
    /\ segments = << >>
    /\ active_segment = 0
    /\ tree = TreeNew
    /\ edits = 0
    /\ \E r \in TriRays : \E t \in Triangles :
           call = [op |-> "triangle", arg |-> <<r, t>>, result |-> << >>]

TestTriangle ==
    /\ call.op = "triangle"
    /\ call' = [op |-> "intersect_ray_triangle", arg |-> call.arg,
                result |-> intersect_ray_triangle(call.arg[1], call.arg[2])]
    /\ UNCHANGED <<segments, active_segment, tree, edits>>

NextTri == TestTriangle

SpecTri == InitTri /\ [][NextTri]_vars

\* The largest number of rows and of columns handed to triangulate in
\* SpecRows.
MaxRows == 4

MaxCols == 3

\* The row sequences handed to triangulate: the first rows (none, one, ..)
\* of the rows Bezier::generate_segments and Loop::generate_segments give
\* for the piece of Course::new and for that piece made a looping.
RowSources ==
    {CourseNew[1][1].rows,
     SegmentEdit(CourseNew[1][1], Keyboard({"Key4"}, {"Key4"})).rows}

\* The arguments of one call of triangulate; fa and ta are the angles of
\* the first and of the last row.
InitRows ==
    /\ segments = << >>
    /\ active_segment = 0
    /\ tree = TreeNew
    /\ edits = 0
    /\ \E src \in RowSources : \E n \in 0..MaxRows : \E cols \in 1..MaxCols :
         \E fa \in {0, -90, 180} : \E ta \in {0, -90, 180} :
           call = [op |-> "rows", arg |-> <<SubSeq(src, 1, n), cols, fa, ta>>,
                   result |-> << >>]

\* A variant of Triangulate that returns the indices with the vertices of
\* all rows but the last.
TriangulateShortOfARow ==
    /\ call.op = "rows"
    /\ call' = [op |-> "triangulate", arg |-> call.arg,
                result |->
                    << triangulate(SubSeq(call.arg[1], 1, Len(call.arg[1]) - 1),
                                   call.arg[2], call.arg[3], call.arg[4])[1],
                       triangulate(call.arg[1], call.arg[2], call.arg[3],
                                   call.arg[4])[2] >>]
    /\ UNCHANGED <<segments, active_segment, tree, edits>>

Triangulate ==
    /\ call.op = "rows"
    /\ call' = [op |-> "triangulate", arg |-> call.arg,
                result |-> triangulate(call.arg[1], call.arg[2], call.arg[3],
                                       call.arg[4])]
    /\ UNCHANGED <<segments, active_segment, tree, edits>>

SpecRows == InitRows /\ [][Triangulate]_vars

\* "Bezier::new(a, b, c, d)" of Segment::generate for the control points cp.
ControlQuad(s, cp) == <<Ticks(s.from), cp[1], cp[2], Ticks(s.to)>>

\* The pieces whose control points are handed to Bezier::generate_segments:
\* the piece of Course::new and that piece after one key that moves, turns
\* or retypes it.
BezierPieces ==
    {CourseNew[1][1]}
      \cup {SegmentEdit(CourseNew[1][1], Keyboard({k}, {k})) :
                k \in {"Key2", "Key3", "U", "I", "K", "J", "L"}}

\* "Bezier::new(a, b, c, d)" with a third control point of the width and
\* the roll given (in units and degrees).
BezierNew(quad, width, roll) ==
    [quad EXCEPT ![3] = [@ EXCEPT !.width = width * Q, !.roll = roll * Q]]

\* One call of Bezier::generate_segments, at the start of its loop with
\* t = 0.0 and no row; the steps are 2, STEP and 5 units.  The third
\* control point has the width and the roll of the second (as in
\* Segment::generate) or half the width and a roll of 90 degrees.
InitBezier ==
    /\ segments = << >>
    /\ active_segment = 0
    /\ tree = TreeNew
    /\ edits = 0
    /\ \E s \in BezierPieces : \E step \in {2 * Q, STEP * Q, 5 * Q} :
         \E wr \in {<<WIDTH, 0>>, <<WIDTH \div 2, 90>>} :
           call = [op     |-> "loop",
                   arg    |-> <<BezierNew(ControlQuad(s, control_points(s)),
                                          wr[1], wr[2]),
                                step>>,
                   t      |-> 0,
                   result |-> << >>]

\* One pass of "loop { .. }" of Bezier::generate_segments: a Row is pushed
\* at t, then the loop breaks (the call returns) when t >= 1.0, else
\* t += step / len.
BezierLoop ==
    /\ call.op = "loop"
    /\ call' = [call EXCEPT
                  !.result = Append(@, BezierRow(call.arg[1], call.t)),
                  !.op = IF call.t >= Q THEN "generate_segments" ELSE "loop",
                  !.t = IF call.t >= Q THEN call.t
                        ELSE BezierAdvance(call.arg[1], call.arg[2], call.t)]
    /\ UNCHANGED <<segments, active_segment, tree, edits>>

SpecBezier == InitBezier /\ [][BezierLoop]_vars

\* The largest number of calls of Course::edit in SpecEdit.
MaxKeys == 3

\* The keyboards handed to Course::edit in SpecEdit: one key of Segment::edit
\* pressed in this frame (a retype, a rotation, a translation or the toggle
\* of the active end), or I pressed while LShift is held.
EditKeyboards ==
    {Keyboard({k}, {k}) :
         k \in {"G", "Key1", "Key2", "Key3", "Key4", "U", "O", "I", "J"}}
      \cup {Keyboard({"I"}, {"I", "LShift"})}

\* Course::edit in the editor: the frames of main.rs while editing.
EditKey(kb) ==
    /\ edits < MaxKeys
    /\ segments' = CourseEdit(segments, active_segment, kb)
    /\ call' = [op |-> "edit", arg |-> kb, result |-> << >>]
    /\ edits' = edits + 1
    /\ UNCHANGED <<active_segment, tree>>

NextEdit == \E kb \in EditKeyboards : EditKey(kb)

SpecEdit == Init /\ [][NextEdit]_vars

----------------------------------------------------------------------------
(* render/mesh.rs and main.rs: the frames of the game, each of which edits *)
(* the course and then draws its meshes.                                   *)

\* The largest number of frames in SpecDraw.
MaxFrames == 3

\* The keyboards of the frames of SpecDraw: no key, or one key of
\* Segment::edit pressed in this frame.
DrawKeyboards ==
    {Keyboard({}, {})}
      \cup {Keyboard({k}, {k}) : k \in {"G", "Key2", "Key4", "U", "I"}}

\* MeshView::draw: the mesh after the call, uploaded if it was not.
MeshViewDraw(mesh) == IF ~is_rendered(mesh) THEN MeshRender(mesh) ELSE mesh

\* "encoder.draw(mesh.slice.as_ref().unwrap(), &self.pso, &data)": the
\* vertex buffer and the slice handed to the encoder.
EncoderDraw(mesh) == [vbuf |-> mesh.buffer[1], slice |-> mesh.slice[1]]

\* "for mut m in self.course.meshes() { self.mesh_view.draw(..) }"
DrawMeshes(segs) ==
    Pushed([s \in 1..Len(segs) |->
                [segs[s] EXCEPT !.mesh = MeshViewDraw(segs[s].mesh)]])

\* Game::draw for the course as the edit of this frame left it.
GameDrawEdited(segs, kb) ==
    /\ segments' = DrawMeshes(segs)
    /\ call' = [op |-> "draw", arg |-> kb,
                result |-> Pushed([s \in 1..Len(segs) |->
                               EncoderDraw(MeshViewDraw(segs[s].mesh))])]

\* Game::draw while editing: "self.course.edit(&keyboard)", then the draw
\* of every mesh of the course.
GameDraw(kb) ==
    /\ edits < MaxFrames
    /\ GameDrawEdited(CourseEdit(segments, active_segment, kb), kb)
    /\ edits' = edits + 1
    /\ UNCHANGED <<active_segment, tree>>

NextDraw == \E kb \in DrawKeyboards : GameDraw(kb)

SpecDraw == Init /\ [][NextDraw]_vars

----------------------------------------------------------------------------
(* renderer: input.rs (KeyState, InputState) and the main loop of run in   *)
(* lib.rs.  The record call holds the locals of run: the position in the   *)
(* loop (op), the fields of the keyboard, the number of the frame and of   *)
(* the events of its poll, and, as a history of the run, the keys that no  *)
(* press event has named since the last reset of the keyboard (reset).     *)

\* The largest number of frames and of events of one poll in SpecInput.
MaxPolls == 3

MaxEvents == 3

\* The keys of the keyboard of SpecInput.
InputKeys == {"I", "LShift"}

\* KeyState::advance
KeyStateAdvance(state) ==
    CASE state = "WasReleased" -> "Released"
      [] state = "WasPressed" -> "Pressed"
      [] OTHER -> state

\* KeyState::reset
KeyStateReset(state) ==
    CASE state = "Pressed" -> "WasReleased"
      [] OTHER -> state

\* KeyState::is_pressed
KeyStateIsPressed(state) == state = "Pressed" \/ state = "WasPressed"

\* InputState::advance
InputStateAdvance(fields) == [k \in DOMAIN fields |-> KeyStateAdvance(fields[k])]

\* InputState::reset
InputStateReset(fields) == [k \in DOMAIN fields |-> KeyStateReset(fields[k])]

\* "let mut keyboard = Keyboard::new(48, ()); .. while running {": every key
\* is Released (KeyState::default).
InitInput ==
    /\ segments = << >>
    /\ active_segment = 0
    /\ tree = TreeNew
    /\ edits = 0
    /\ call = [op     |-> "while",
               fields |-> [k \in InputKeys |-> "Released"],
               frame  |-> 0,
               events |-> 0,
               reset  |-> {}]

\* "keyboard.advance();" at the start of a frame.
RunAdvance ==
    /\ call.op \in {"while", "draw"}
    /\ call.frame < MaxPolls
    /\ call' = [call EXCEPT !.op = "poll_events",
                            !.fields = InputStateAdvance(@),
                            !.frame = @ + 1,
                            !.events = 0]
    /\ UNCHANGED <<segments, active_segment, tree, edits>>

\* The event WindowEvent::Focused(_): "keyboard.reset();"
RunFocused ==
    /\ call.op = "poll_events"
    /\ call.events < MaxEvents
    /\ call' = [call EXCEPT !.fields = InputStateReset(@),
                            !.events = @ + 1,
                            !.reset = InputKeys]
    /\ UNCHANGED <<segments, active_segment, tree, edits>>

\* The event WindowEvent::KeyboardInput(ElementState::Pressed, _, Some(key), _):
\* "keyboard.set(key.into(), KeyState::WasPressed);"
RunKeyPressed(key) ==
    /\ call.op = "poll_events"
    /\ call.events < MaxEvents
    /\ call' = [call EXCEPT !.fields[key] = "WasPressed",
                            !.events = @ + 1,
                            !.reset = @ \ {key}]
    /\ UNCHANGED <<segments, active_segment, tree, edits>>

\* The event WindowEvent::KeyboardInput(ElementState::Released, _, Some(key), _):
\* "keyboard.set(key.into(), KeyState::WasReleased);"
RunKeyReleased(key) ==
    /\ call.op = "poll_events"
    /\ call.events < MaxEvents
    /\ call' = [call EXCEPT !.fields[key] = "WasReleased",
                            !.events = @ + 1]
    /\ UNCHANGED <<segments, active_segment, tree, edits>>

\* "renderable.draw(time, dt, &mut encoder, &keyboard, &mouse, resized);"
\* after the poll: the frame sees the keyboard as the poll left it.
RunDraw ==
    /\ call.op = "poll_events"
    /\ call' = [call EXCEPT !.op = "draw"]
    /\ UNCHANGED <<segments, active_segment, tree, edits>>

NextInput ==
    \/ RunAdvance
    \/ RunFocused
    \/ \E key \in InputKeys : RunKeyPressed(key)
    \/ \E key \in InputKeys : RunKeyReleased(key)
    \/ RunDraw

SpecInput == InitInput /\ [][NextInput]_vars

----------------------------------------------------------------------------
(* The vocabulary of the properties.  None of it is used by the actions.   *)

\* The last call was Course::intersect_ray and call.arg is its segment.
Queried == call.op = "intersect_ray"

IsHit(o) == o.kind = "PointAndNormal"

\* Some triangle of some piece is intersected by the segment: the scan of
\* every triangle of every current mesh.
BruteForceHit(segs, ray) ==
    \E i \in 1..Len(segs) : \E k \in 1..Len(segs[i].mesh.triangles) :
        IsHit(intersect_ray_triangle(
                  ray, Corners(segs[i].mesh, segs[i].mesh.triangles[k])))

\* The entries of the grid: <<cell, <<piece, triangle>> >>.
Entries(cells) ==
    UNION {{<<c, cells[c][k]>> : k \in 1..Len(cells[c])} : c \in DOMAIN cells}

\* The pair refers to a piece of segs and to a triangle of its mesh.
PairInRange(pair, segs) ==
    /\ pair[1] < Len(segs)
    /\ pair[2] < Len(segs[pair[1] + 1].mesh.triangles)

\* The keyboard makes Segment::edit call generate().
Regenerates(kb) == \E i \in 1..Len(EditOrder) : EditOrder[i] \in kb.was_pressed

\* The places <<cell, k>> a query for ray looks at: the k-th pair of every
\* cell of the ray's range that the grid holds.
Visited(cells, ray) ==
    UNION {{<<c, k>> : k \in 1..Len(cells[c])} :
               c \in CellsOf(RayCells(ray)) \cap DOMAIN cells}

\* Lexicographic order of the cells, x first, then y, then z.
CellBefore(c, d) ==
    \/ c[1] < d[1]
    \/ c[1] = d[1] /\ c[2] < d[2]
    \/ c[1] = d[1] /\ c[2] = d[2] /\ c[3] < d[3]

\* The place p is looked at before the place q.
Before(p, q) == CellBefore(p[1], q[1]) \/ (p[1] = q[1] /\ p[2] < q[2])

\* What the triangle test says for the pair: Panic when the pair is out of
\* range.
PairOutcome(pair, segs, ray) ==
    IF PairInRange(pair, segs)
      THEN intersect_ray_triangle(
               ray, Corners(segs[pair[1] + 1].mesh,
                            segs[pair[1] + 1].mesh.triangles[pair[2] + 1]))
      ELSE Panic

\* The outcome at every place the query looks at.
Outcomes(cells, segs, ray) ==
    Inserted([p \in Visited(cells, ray) |->
                  PairOutcome(cells[p[1]][p[2]], segs, ray)])

Hits(o) == {p \in DOMAIN o : IsHit(o[p])}

FirstHit(o) == CHOOSE p \in Hits(o) : \A q \in Hits(o) : p = q \/ Before(p, q)

Recoverable == {"Degenerate", "Parallel", "None"}

\* Every place looked at before q has a Degenerate, Parallel or None outcome.
OnlyRecoverableBefore(o, q) ==
    \A p \in DOMAIN o : Before(p, q) => o[p].kind \in Recoverable

\* The query that found the outcomes o returned the first hit among them,
\* and returned None only when there is no hit among them.
ReturnsFirstHit(o, result) ==
    /\ Hits(o) # {} => result = o[FirstHit(o)]
    /\ IsHit(result) => Hits(o) # {}
    /\ result = NoHit => Hits(o) = {}

\* The query that found the outcomes o went on after the Degenerate,
\* Parallel and None outcomes.
SkipsRecoverable(o, result) ==
    /\ \A q \in Hits(o) : OnlyRecoverableBefore(o, q) => result = o[q]
    /\ (\A p \in DOMAIN o : o[p].kind \in Recoverable) => result = NoHit

\* The query returned a hit of o that a Parallel outcome precedes.
ReturnsHitAfterParallel(o, result) ==
    \E q \in Hits(o) :
        /\ result = o[q]
        /\ \E p \in DOMAIN o : Before(p, q) /\ o[p].kind = "Parallel"

\* The grid Course::new builds.
CreationGrid == CourseNew[3]

\* The point in which the line of the segment r meets the plane of the
\* triangle t, times b = n . dir, for n . dir # 0:
\* X = start + (n . (t0 - start) / b) dir.
TriNormal(t) == Cross(VSub(t[2], t[1]), VSub(t[3], t[1]))

PlaneB(r, t) == Dot(TriNormal(t), VSub(r[2], r[1]))

PlaneA(r, t) == Dot(TriNormal(t), VSub(t[1], r[1]))

PlaneX(r, t) ==
    VAdd(VScale(r[1], PlaneB(r, t)), VScale(VSub(r[2], r[1]), PlaneA(r, t)))

\* X is on the segment: 0 <= a / b <= 1.
OnSegment(r, t) ==
    /\ PlaneA(r, t) * PlaneB(r, t) >= 0
    /\ Abs(PlaneA(r, t)) <= Abs(PlaneB(r, t))

\* X = bx / b is on the inner side of the edge from p to q of a triangle
\* of normal n, or on the edge.
InnerSide(n, p, q, bx, b) ==
    Dot(n, Cross(VSub(q, p), VSub(bx, VScale(p, b)))) * Sign(b) >= 0

\* X is a point of the triangle t.
InTriangle(r, t) ==
    /\ InnerSide(TriNormal(t), t[1], t[2], PlaneX(r, t), PlaneB(r, t))
    /\ InnerSide(TriNormal(t), t[2], t[3], PlaneX(r, t), PlaneB(r, t))
    /\ InnerSide(TriNormal(t), t[3], t[1], PlaneX(r, t), PlaneB(r, t))

\* The outcome the order of the tests gives.
ExpectedKind(r, t) ==
    IF IsZero(TriNormal(t)) THEN "Degenerate"
    ELSE IF PlaneB(r, t) = 0 THEN "Parallel"
    ELSE IF ~OnSegment(r, t) \/ ~InTriangle(r, t) THEN "None"
    ELSE "PointAndNormal"

\* The rational vector p is X.
IsPlaneX(p, r, t) ==
    /\ p.den > 0
    /\ VScale(p.num, PlaneB(r, t)) = VScale(PlaneX(r, t), p.den)

\* The segment r from its end to its start.
Swapped(r) == <<r[2], r[1]>>

\* The row (0-based) of the vertex of index i (0-based) of a mesh of cols
\* columns.
RowOfIndex(i, cols) == i \div (cols + 1)

\* The rows of the three vertices of the k-th triangle (1-based) of the
\* index list.
TriangleRows(indices, k, cols) ==
    {RowOfIndex(indices[3 * k - 3 + j], cols) : j \in 1..3}

\* The triangles of the index list that join row r and row r + 1.
Joining(indices, r, cols) ==
    {k \in 1..(Len(indices) \div 3) : TriangleRows(indices, k, cols) = {r, r + 1}}

\* Some triangle of the mesh of the piece s joins a vertex of its last row
\* and a vertex of its first row.
LastRowJoinsFirst(s) ==
    \E k \in 1..(Len(s.mesh.indices) \div 3) :
        {0, Len(s.rows) - 1} \subseteq TriangleRows(s.mesh.indices, k, COLS)

\* Every triangle of the mesh of the piece s joins two adjacent rows.
AdjacentRowsOnly(s) ==
    \A k \in 1..(Len(s.mesh.indices) \div 3) :
        \E r \in 0..(Len(s.rows) - 2) :
            TriangleRows(s.mesh.indices, k, COLS) = {r, r + 1}

\* The derivative of the curve p does not vanish at any t of the rows.
NonZeroDerivative(p, rows) ==
    \A k \in 1..Len(rows) : ~IsZero(BezierDerivative(p, Min(rows[k].t, Q)))

\* The t of the rows increase strictly from 0, and the first row is at the
\* first control point of p.
RowsAscend(p, rows) ==
    /\ \A k \in 1..(Len(rows) - 1) : rows[k].t < rows[k + 1].t
    /\ rows # << >> => (rows[1].t = 0 /\ rows[1].pos = p[1].pos)

\* The loop has pushed the rows and goes on with t: every row was pushed
\* at a t below 1 and t is beyond all of them.
LoopAdvances(rows, t) ==
    \A k \in 1..Len(rows) : rows[k].t < Q /\ rows[k].t < t

\* The rows are two or more and the last is at the last control point of
\* p, with t >= 1.
RowsReachEnd(p, rows) ==
    /\ Len(rows) >= 2
    /\ rows[Len(rows)].t >= Q
    /\ rows[Len(rows)].pos = p[4].pos

\* The rows and the mesh of the piece s are those Segment::generate gives
\* for s.
IsGeneratedAs(s, g) == s.rows = g.rows /\ s.mesh = g.mesh

IsGenerated(s) == IsGeneratedAs(s, generate(s))

\* The chord of the piece s along its dominant axis.
DominantChord(s) ==
    Max(Abs(s.from.pos.x - s.to.pos.x), Abs(s.from.pos.z - s.to.pos.z))

\* The segment ray goes straight down from y = 1000 to y = -1000 through
\* the first quad of the middle column of the Straight piece of Course::new,
\* on the side of its diagonal where (10, 0, 10) lies.
IsProbeNearStart(ray) ==
    /\ ray[1].y = 60 /\ ray[2].y = -60
    /\ ray[1].x = ray[2].x /\ ray[1].z = ray[2].z
    /\ ray[1].x > 0 /\ ray[1].x < STEP
    /\ ray[1].z > 0 /\ ray[1].z < WIDTH \div COLS

\* The triangles Course::new handed to Tree::insert.
InsertedTriangles == MeshTriangles(CourseNew[1][1].mesh)

\* The bounding boxes of the segment ray and of the triangle t are apart
\* along the axis whose coordinates are given.
ApartAlong(r1, r2, t1, t2, t3) ==
    \/ Max(r1, r2) < MinOf3(t1, t2, t3)
    \/ Min(r1, r2) > MaxOf3(t1, t2, t3)

BoxesApart(ray, t) ==
    \/ ApartAlong(ray[1].x, ray[2].x, t[1].x, t[2].x, t[3].x)
    \/ ApartAlong(ray[1].y, ray[2].y, t[1].y, t[2].y, t[3].y)
    \/ ApartAlong(ray[1].z, ray[2].z, t[1].z, t[2].z, t[3].z)

\* The segment ray is outside the bounding box of every inserted triangle.
FarFromInserted(ray) ==
    \A k \in 1..Len(InsertedTriangles) : BoxesApart(ray, InsertedTriangles[k])

\* The rows were sampled at t = 0, step, 2 step, ...
ConstantSteps(rows, step) ==
    \A k \in 1..Len(rows) : rows[k].t = (k - 1) * step

\* The t of the last row.
LastT(rows) == rows[Len(rows)].t

\* 2 PI radius in ticks, for a radius in units.
Circumference(radius) == 2 * PI * radius

\* The value v lies in the interval spanned by a and b.
Between(a, b, v) == Min(a, b) <= v /\ v <= Max(a, b)

\* The width and the roll of every row lie between those of the second and
\* the third control point of p.
RowsInterpolate(p, rows) ==
    \A k \in 1..Len(rows) :
        /\ Between(p[2].width, p[3].width, rows[k].width)
        /\ Between(p[2].roll, p[3].roll, rows[k].roll)

\* The last row has the width and the roll of the third control point of p.
LastRowAtP2(p, rows) ==
    /\ rows[Len(rows)].width = p[3].width
    /\ rows[Len(rows)].roll = p[3].roll

\* The keys of the retype commands.
RetypeKeys == {"Key1", "Key2", "Key3", "Key4"}

\* The piece t is the piece s with the other end active and nothing else
\* changed.
OnlyToggled(s, t) == t = [s EXCEPT !.active_point = ~s.active_point]

\* The offset of the translate command of the keyboard kb.
TranslateOffset(kb) ==
    CASE "I" \in kb.was_pressed -> Vec(LEN_100, 0, 0)
      [] "K" \in kb.was_pressed -> Vec(-LEN_100, 0, 0)
      [] "J" \in kb.was_pressed -> Vec(0, 0, -LEN_100)
      [] "L" \in kb.was_pressed -> Vec(0, 0, LEN_100)

\* The active end and the other end of the piece s.
ActiveEnd(s) == IF s.active_point THEN s.to ELSE s.from

OtherEnd(s) == IF s.active_point THEN s.from ELSE s.to

\* The coordinates of the position p.
Coordinates(p) == Vec(p.x, p.y, p.z)

\* The end q is the end p moved by the offset.
MovedBy(p, q, offset) ==
    /\ Coordinates(q.pos) = VAdd(Coordinates(p.pos), offset)
    /\ q.width = p.width /\ q.roll = p.roll

\* The piece t is the piece s after a translate command with the offset:
\* the active end has moved, the other end has moved as well (symmetric) or
\* is as it was, type, angle and active end are as they were.
IsTranslated(s, t, offset, symmetric) ==
    /\ MovedBy(ActiveEnd(s), ActiveEnd(t), offset)
    /\ IF symmetric THEN MovedBy(OtherEnd(s), OtherEnd(t), offset)
                    ELSE OtherEnd(t) = OtherEnd(s)
    /\ symmetric =>
           VSub(Coordinates(t.to.pos), Coordinates(t.from.pos))
               = VSub(Coordinates(s.to.pos), Coordinates(s.from.pos))
    /\ t.typ = s.typ /\ t.angle = s.angle
    /\ t.active_point = s.active_point

\* The z of the position p is exactly 0: neither a coordinate nor the
\* nudge of Point::new.
ZeroZ(p) == p.z = 0 /\ p.e = 0

\* The type a retype key gives a piece.
RetypeOf(key) ==
    CASE key = "Key1" -> "Straight"
      [] key = "Key2" -> "Curve90"
      [] key = "Key3" -> "Curve180"
      [] key = "Key4" -> "Looping"

\* The chord (to - from) of the piece s.
Chord(s) == VSub(Coordinates(s.to.pos), Coordinates(s.from.pos))

\* The piece s has the canonical shape of the type: (500, 0, 0) at angle 0
\* for Straight and Looping, (0, 0, 500) at angle 180 for Curve180,
\* (300, 0, 300) at angle 180 for Curve90.
IsCanonical(s, typ) ==
    /\ s.typ = typ
    /\ typ \in {"Straight", "Looping"} =>
           Chord(s) = Vec(LEN_500, 0, 0) /\ s.angle = 0
    /\ typ = "Curve180" => Chord(s) = Vec(0, 0, LEN_500) /\ s.angle = 180
    /\ typ = "Curve90" => Chord(s) = Vec(LEN_300, 0, LEN_300) /\ s.angle = 180

\* The piece t is the piece s after the retype to typ: the active end is
\* where it was, both rolls are 0 and the shape is the canonical one.
IsRetyped(s, t, typ) ==
    /\ ActiveEnd(t).pos = ActiveEnd(s).pos
    /\ t.active_point = s.active_point
    /\ t.from.roll = 0 /\ t.to.roll = 0
    /\ IsCanonical(t, typ)

\* The vector w is the vector v after a quarter turn about the vertical
\* axis: same height, same length, at a right angle.
IsQuarterTurn(v, w) ==
    /\ w.y = v.y
    /\ w.x * w.x + w.z * w.z = v.x * v.x + v.z * v.z
    /\ w.x * v.x + w.z * v.z = 0

\* The piece t is the piece s after a rotation by angle (90 or -90) about
\* its active end.
IsRotated(s, t, angle) ==
    /\ ActiveEnd(t) = ActiveEnd(s)
    /\ t.active_point = s.active_point
    /\ IsQuarterTurn(VSub(Coordinates(OtherEnd(s).pos), Coordinates(ActiveEnd(s).pos)),
                     VSub(Coordinates(OtherEnd(t).pos), Coordinates(ActiveEnd(t).pos)))
    /\ t.angle - s.angle \in {angle, angle - 360, angle + 360}
    /\ t.angle % 90 = 0
    /\ t.angle > -360 /\ t.angle < 360

\* The piece s after two edits with the rotation key (U: -90 degrees each,
\* O: 90 degrees each).
TurnedTwice(s, key) ==
    SegmentEdit(SegmentEdit(s, Keyboard({key}, {key})), Keyboard({key}, {key}))

\* The handles of the curve of the piece s, or the radius of its loop.
HandlesOrRadius(s) ==
    IF s.typ = "Looping" THEN << LoopHeight(s) >>
    ELSE << control_points(s)[1], control_points(s)[2] >>

\* The pieces a and b have the same geometry: ends, handles or loop radius,
\* rows and mesh.
SameGeometry(a, b) ==
    /\ a.from = b.from /\ a.to = b.to
    /\ HandlesOrRadius(a) = HandlesOrRadius(b)
    /\ a.rows = b.rows
    /\ a.mesh = b.mesh

\* The buffer and the slice of the mesh, if it holds any, are those an
\* upload of its vertices, indices and colour as they are now gives.
BufferIsCurrent(mesh) ==
    is_rendered(mesh) =>
        /\ mesh.buffer = MeshRender(mesh).buffer
        /\ mesh.slice = MeshRender(mesh).slice

\* What a draw hands to the encoder for a mesh uploaded as it is now.
CurrentDraw(mesh) == EncoderDraw(MeshRender(mesh))

\* The vertices v are cols + 1 for each of the rows, in the order of the
\* rows: the first and the last vertex of a row are at the two sides of the
\* position of the row (to the unit).
VerticesByRow(v, rows, cols) ==
    /\ Len(v) = Len(rows) * (cols + 1)
    /\ \A r \in 1..Len(rows) :
           MaxAbs(VSub(VAdd(v[(r - 1) * (cols + 1) + 1], v[r * (cols + 1)]),
                       VScale(ToUnits(rows[r].pos), 2))) <= 2

\* The index list is of two triangles for each column and each pair of
\* adjacent rows, and of nothing else.
TrianglesByRowPair(indices, n, cols) ==
    /\ Len(indices) = (IF n = 0 THEN 0 ELSE (n - 1) * cols * 2) * 3
    /\ \A r \in 0..(n - 2) : Cardinality(Joining(indices, r, cols)) = cols * 2

\* The outcomes a and b are of one class, and two hits are at one point.
SameClassAndPoint(a, b) ==
    /\ a.kind = b.kind
    /\ IsHit(a) => a.point = b.point

----------------------------------------------------------------------------
(* The properties.                                                         *)

\* C1: whatever edits came before, a query returns a hit exactly when the
\* scan of every triangle of every current mesh finds a triangle the segment
\* intersects, and returns None otherwise.
C1_QueryIsBruteForce ==
    Queried =>
        /\ IsHit(call.result) <=> BruteForceHit(segments, call.arg)
        /\ call.result = NoHit <=> ~BruteForceHit(segments, call.arg)

\* C2: every pair the grid holds names a piece below the number of pieces
\* and a triangle below the number of triangles of that piece's current
\* mesh.
C2_PairsInRange ==
    \A e \in Entries(tree) : PairInRange(e[2], segments)

\* C3: after an edit that regenerates the active piece's mesh the grid holds
\* exactly the entries that inserting the piece's current mesh produces.
C3_GridReindexed ==
    (call.op = "edit" /\ Regenerates(call.arg)) =>
        Entries(tree) =
            Entries(TreeInsert(TreeNew, segments[active_segment + 1],
                               active_segment))

\* C4: no call of edit or intersect_ray panics.
C4_NoPanic == call.op \in {"edit", "intersect_ray"} => call.result # Panic

\* C5: the grid is the one built at creation in every state, whatever was
\* edited, regenerated or queried, and Tree::remove leaves it as it is.
C5_GridFrozen ==
    /\ tree = CreationGrid
    /\ \A i \in 1..Len(segments) : TreeRemove(tree, segments[i]) = tree

\* C5, its case: an edit has changed the mesh of the piece and the grid is
\* the one built at creation.
C5_EditedMeshSameGrid ==
    /\ call.op = "edit"
    /\ segments[1].mesh.vectors # CourseNew[1][1].mesh.vectors
    /\ tree = CreationGrid

\* C6: before any edit the Course has one piece, a Straight of angle 0 from
\* the origin (z nudged) to 500.0 further along +x with the start endpoint
\* active, the active index 0 and a grid whose pairs are (0, t) for exactly
\* the triangles t of the piece's mesh; start_point() returns the start
\* endpoint of piece 0.
C6_FreshCourse ==
    /\ edits = 0 =>
           /\ Len(segments) = 1
           /\ segments[1].typ = "Straight"
           /\ segments[1].angle = 0
           /\ segments[1].from.pos = Pos(0, 0, 0, NUDGE)
           /\ segments[1].to.pos = Pos(LEN_500, 0, 0, NUDGE)
           /\ segments[1].active_point = FALSE
           /\ active_segment = 0
           /\ Len(segments[1].mesh.triangles) > 0
           /\ {e[2] : e \in Entries(tree)} =
                  {<<0, t>> : t \in 0..(Len(segments[1].mesh.triangles) - 1)}
    /\ call.op = "start_point" => call.result = segments[1].from.pos

\* C6, its case: start_point() has been called on the Course as created.
C6_FreshStartPoint ==
    /\ edits = 0
    /\ call.op = "start_point"
    /\ call.result = Pos(0, 0, 0, NUDGE)

\* C7: an edit while the active index is not below the number of pieces
\* changes no piece, not the index and not the grid, and does not panic.
C7_EditPastEndIsNoOp ==
    [][(call'.op = "edit" /\ edits' = edits + 1
            /\ active_segment >= Len(segments))
         => (/\ segments' = segments
             /\ active_segment' = active_segment
             /\ tree' = tree
             /\ call'.result # Panic)]_vars

\* C7, its case: an edit with a key pressed has been made while the active
\* index is not below the number of pieces.
C7_EditedPastEnd ==
    /\ call.op = "edit"
    /\ call.arg.was_pressed # {}
    /\ active_segment >= Len(segments)

\* C8: a query looks at the cells in lexicographic order and at the pairs of
\* a cell in the order of insertion, and returns the hit of the first pair
\* whose triangle the segment intersects; it returns None only if no pair
\* looked at yields a hit.
C8_FirstHitInScanOrder ==
    Queried =>
        ReturnsFirstHit(Outcomes(tree, segments, call.arg), call.result)

\* C9: a Degenerate or Parallel outcome does not end the scan: a hit that
\* only Degenerate, Parallel and None outcomes precede is the hit returned,
\* and a query whose every outcome is Degenerate, Parallel or None returns
\* None.
C9_RecoverableOutcomesAreSkipped ==
    Queried =>
        SkipsRecoverable(Outcomes(tree, segments, call.arg), call.result)

\* C9, its case: the query has returned a hit that a Parallel outcome
\* precedes.
C9_HitAfterParallel ==
    /\ Queried
    /\ IsHit(call.result)
    /\ ReturnsHitAfterParallel(Outcomes(tree, segments, call.arg), call.result)

\* C10: intersect_ray_triangle answers Degenerate for a triangle of zero
\* normal whatever the segment, else Parallel when N . dir is zero, else
\* None when the point of the plane is off the segment or off the triangle,
\* else the hit at start + r * dir.
C10_OrderOfTests ==
    call.op = "intersect_ray_triangle" =>
        /\ call.result.kind = ExpectedKind(call.arg[1], call.arg[2])
        /\ IsHit(call.result) =>
               IsPlaneX(call.result.point, call.arg[1], call.arg[2])

\* C10, its case: a segment that ends inside a triangle has been tested and
\* the hit is its end.
C10_HitAtEnd ==
    /\ call.op = "intersect_ray_triangle"
    /\ IsHit(call.result)
    /\ call.result.point = [num |-> call.arg[1][2], den |-> 1]
    /\ call.arg[1][1] # call.arg[1][2]

\* C11: the normal of every hit of intersect_ray_triangle opposes the
\* segment: its dot product with end - start is negative, from whichever
\* side the segment comes and whatever the winding of the triangle.
C11_NormalOpposesRay ==
    (call.op = "intersect_ray_triangle" /\ IsHit(call.result)) =>
        Dot(call.result.normal, VSub(call.arg[1][2], call.arg[1][1])) < 0

\* C12: the segment with its two ends swapped has the outcome of the same
\* class, and for a hit the same point.
C12_SwapKeepsOutcome ==
    call.op = "intersect_ray_triangle" =>
        SameClassAndPoint(call.result,
                          intersect_ray_triangle(Swapped(call.arg[1]),
                                                 call.arg[2]))

\* C12, its case: a segment that crosses a triangle between its two ends
\* has been tested and is a hit.
C12_HitInside ==
    /\ call.op = "intersect_ray_triangle"
    /\ IsHit(call.result)
    /\ call.result.point.num # VScale(call.arg[1][1], call.result.point.den)
    /\ call.result.point.num # VScale(call.arg[1][2], call.result.point.den)
    /\ IsHit(intersect_ray_triangle(Swapped(call.arg[1]), call.arg[2]))

\* C13: triangulate returns cols + 1 vertices for every row, in the order
\* of the rows, and two triangles for every column and every pair of
\* adjacent rows: R * (C + 1) vertices and (R - 1) * C * 2 triangles for
\* R >= 1 rows, nothing for no row.
C13_VertexAndTriangleCounts ==
    call.op = "triangulate" =>
        /\ VerticesByRow(call.result[1], call.arg[1], call.arg[2])
        /\ TrianglesByRowPair(call.result[2], Len(call.arg[1]), call.arg[2])

\* C13, its case: three rows or more have been triangulated with two
\* columns or more.
C13_SeveralRowsAndColumns ==
    /\ call.op = "triangulate"
    /\ Len(call.arg[1]) >= 3
    /\ call.arg[2] >= 2
    /\ Len(call.result[2]) = (Len(call.arg[1]) - 1) * call.arg[2] * 6

C15_SamplingEndsAtP3 ==
    (call.op \in {"loop", "generate_segments"}
       /\ NonZeroDerivative(call.arg[1], call.result)) =>
        /\ RowsAscend(call.arg[1], call.result)
        /\ call.op = "loop" => LoopAdvances(call.result, call.t)
        /\ call.op = "generate_segments" =>
               RowsReachEnd(call.arg[1], call.result)

\* C15, its case: a call with a step of 5 units has returned four rows or
\* more for a curve that is not straight.
C15_CurveSampled ==
    /\ call.op = "generate_segments"
    /\ call.arg[2] = 5 * Q
    /\ Len(call.result) >= 4
    /\ call.arg[1][1].pos.z # call.arg[1][4].pos.z
    /\ NonZeroDerivative(call.arg[1], call.result)

\* C16: the rows and the mesh of every piece are those generated from its
\* ends, its type and its angle as they are now: every command of an edit
\* is followed by a regeneration before the edit returns.
C16_RowsAndMeshCurrent ==
    \A s \in 1..Len(segments) : IsGenerated(segments[s])

\* C16, its case: a piece that is not as Course::new made it has been
\* translated by the last edit.
C16_TranslatedPiece ==
    /\ call.op = "edit"
    /\ "I" \in call.arg.was_pressed
    /\ edits >= 2
    /\ \E s \in 1..Len(segments) :
           /\ segments[s].typ # "Straight"
           /\ Len(segments[s].rows) >= 2

\* C19: the radius Segment::generate hands to Loop::new for a looping is
\* the chord of the piece along its dominant axis, the larger of |dx| and
\* |dz| of its two ends, whatever retypes, rotations and translations came
\* before.
C19_RadiusIsDominantChord ==
    \A s \in 1..Len(segments) :
        segments[s].typ = "Looping" =>
            LoopHeight(segments[s]) = DominantChord(segments[s])

\* C17: on the course as Course::new made it, a vertical segment from
\* above to below the Straight piece, through a point near its start,
\* returns a hit at y = 0 with the normal (0, 1, 0).
C17_VerticalProbeHitsFlatPiece ==
    (Queried /\ edits = 0 /\ IsProbeNearStart(call.arg)) =>
        /\ IsHit(call.result)
        /\ call.result.point.num.y = 0
        /\ call.result.normal = Up

\* C17, its case: the course has not been edited and the vertical segment
\* through the point near the start of the piece has been queried.
C17_ProbedNearStart ==
    /\ Queried
    /\ edits = 0
    /\ IsProbeNearStart(call.arg)
    /\ segments[1].typ = "Straight"
    /\ call.result # NoHit

\* C18: a segment that is outside the bounding box of every triangle that
\* was inserted into the grid returns None.
C18_FarRayReturnsNone ==
    (Queried /\ FarFromInserted(call.arg)) => call.result = NoHit

\* C20: Loop::generate_segments advances t in constant steps and appends
\* rows until t exceeds twice the circumference 2 PI radius: the rows of a
\* looping cover both passes over the circle.
C20_RowsForTwoPasses ==
    \A s \in 1..Len(segments) :
        (segments[s].typ = "Looping" /\ LoopHeight(segments[s]) > 0) =>
            /\ ConstantSteps(segments[s].rows, STEP * Q)
            /\ LastT(segments[s].rows) + STEP * Q
                   >= 2 * Circumference(LoopHeight(segments[s]))

\* C20 as amended: t advances in constant steps and rows are appended
\* until t reaches the circumference 2 PI radius once: the last row is the
\* first whose t is not below the circumference (or the last below twice
\* the circumference, where one step leads beyond that), and no row lies
\* beyond it.
C20_RowsForOnePass ==
    \A s \in 1..Len(segments) :
        (segments[s].typ = "Looping" /\ LoopHeight(segments[s]) > 0) =>
            /\ ConstantSteps(segments[s].rows, STEP * Q)
            /\ \/ LastT(segments[s].rows)
                      >= Circumference(LoopHeight(segments[s]))
               \/ LastT(segments[s].rows) + STEP * Q
                      >= 2 * Circumference(LoopHeight(segments[s]))
            /\ LastT(segments[s].rows) - STEP * Q
                   < Circumference(LoopHeight(segments[s]))

\* C20, its case: a piece has been made a looping of a radius above zero
\* and has rows beyond half of its circumference.
C20_LoopingSampled ==
    /\ call.op = "edit"
    /\ \E s \in 1..Len(segments) :
           /\ segments[s].typ = "Looping"
           /\ LoopHeight(segments[s]) > 0
           /\ 2 * LastT(segments[s].rows)
                  > Circumference(LoopHeight(segments[s]))

C22_TypeChangesByRetypeOnly ==
    [][\A s \in 1..Len(segments) :
           /\ call'.arg.was_pressed \cap RetypeKeys = {} =>
                  segments'[s].typ = segments[s].typ
           /\ (call'.arg.was_pressed = {"G"} /\ s = active_segment + 1) =>
                  OnlyToggled(segments[s], segments'[s])]_vars

\* C22, its case: the active end of a looping has been toggled by the last
\* edit.
C22_ToggledLooping ==
    /\ call.op = "edit"
    /\ call.arg.was_pressed = {"G"}
    /\ segments[1].typ = "Looping"
    /\ segments[1].active_point

\* C23: a translate command without the symmetric flag moves the active
\* end by the offset and leaves the other end as it was; with the flag both
\* ends move by the offset and the chord is as it was.  Type and angle are
\* as they were.
C23_TranslateMovesActiveEnd ==
    [][call'.arg.was_pressed \in {{"I"}, {"K"}, {"J"}, {"L"}} =>
           IsTranslated(segments[active_segment + 1],
                        segments'[active_segment + 1],
                        TranslateOffset(call'.arg),
                        "LShift" \in call'.arg.is_pressed)]_vars

\* C23, its case: the end "to" is active and the last edit has translated
\* it alone.
C23_TranslatedTo ==
    /\ call.op = "edit"
    /\ call.arg.was_pressed = {"I"}
    /\ "LShift" \notin call.arg.is_pressed
    /\ segments[1].active_point
    /\ segments[1].to.pos.x - segments[1].from.pos.x = LEN_500 + LEN_100

\* C25: the z of both ends of every piece is never exactly 0, whatever
\* retypes, rotations and translations came before.  (The handles of a
\* Straight, Curve90 or Curve180 piece are made by Point::new, those of a
\* looping are its two ends.)
C25_EndsOffZeroZ ==
    \A s \in 1..Len(segments) :
        ~ZeroZ(segments[s].from.pos) /\ ~ZeroZ(segments[s].to.pos)

\* C26: a retype keeps the active end where it was, sets both rolls to 0
\* and gives the piece the canonical shape of its new type, whatever the
\* piece was before.
C26_RetypeGivesCanonicalShape ==
    [][\A key \in RetypeKeys :
           call'.arg.was_pressed = {key} =>
               IsRetyped(segments[active_segment + 1],
                         segments'[active_segment + 1],
                         RetypeOf(key))]_vars

\* C26, its case: a piece that had been turned and whose end "to" is active
\* has been retyped to a 180 degree curve by the last edit.
C26_RetypedTurnedPiece ==
    /\ call.op = "edit"
    /\ call.arg.was_pressed = {"Key3"}
    /\ segments[1].active_point
    /\ segments[1].to.pos.x # LEN_500

\* C27: a rotation by 90 or -90 degrees leaves the active end as it was,
\* turns the other end by a quarter turn about the vertical axis through the
\* active end (chord length and height kept) and changes the angle by the
\* rotation, the angle staying a multiple of 90 of absolute value below 360.
C27_RotatePivotsOnActiveEnd ==
    [][/\ call'.arg.was_pressed = {"U"} =>
              IsRotated(segments[active_segment + 1],
                        segments'[active_segment + 1], -90)
       /\ call'.arg.was_pressed = {"O"} =>
              IsRotated(segments[active_segment + 1],
                        segments'[active_segment + 1], 90)]_vars

\* C27, its case: a piece away from the world's origin whose end "to" is
\* active has been turned by the last edit, to a negative angle.
C27_TurnedAboutTo ==
    /\ call.op = "edit"
    /\ call.arg.was_pressed = {"U"}
    /\ segments[1].active_point
    /\ segments[1].angle < 0

\* C28: the geometry of a piece depends on its orientation modulo 360
\* degrees only: turning the active piece twice by -90 degrees and turning it
\* twice by 90 degrees (net rotations equal modulo 360) give the same ends,
\* handles or loop radius, rows and mesh, whatever its type.
C28_GeometryModuloFullTurn ==
    SameGeometry(TurnedTwice(segments[active_segment + 1], "U"),
                 TurnedTwice(segments[active_segment + 1], "O"))

\* C29: every index triangulate emits is smaller than the number of
\* vertices it emits, for every number of rows (none included) and every
\* number of columns from 1 on, so that no triangle of a generated mesh
\* names a vertex out of range.
C29_IndicesBelowVertexCount ==
    /\ call.op = "triangulate" =>
           \A k \in 1..Len(call.result[2]) :
               call.result[2][k] \in 0..(Len(call.result[1]) - 1)
    /\ \A s \in 1..Len(segments) :
           \A k \in 1..Len(segments[s].mesh.triangles) :
               \A c \in 1..3 :
                   segments[s].mesh.triangles[k][c]
                       \in 0..(Len(segments[s].mesh.vectors) - 1)

\* C29, its case: triangulate has returned the mesh of several rows, and one
\* of its indices is the last vertex.
C29_LastVertexIndexed ==
    /\ call.op = "triangulate"
    /\ Len(call.arg[1]) >= 3
    /\ \E k \in 1..Len(call.result[2]) :
           call.result[2][k] = Len(call.result[1]) - 1

\* C24: a mesh that holds a GPU buffer holds the one built from its
\* vertices, indices and colour as they are now: a regeneration and a
\* set_color leave the mesh without a buffer, and every draw hands the
\* encoder the buffer of the mesh as it is in that frame, never a stale one.
C24_BufferIsOfCurrentMesh ==
    /\ \A s \in 1..Len(segments) :
           /\ BufferIsCurrent(segments[s].mesh)
           /\ ~is_rendered(generate(segments[s]).mesh)
           /\ ~is_rendered(MeshSetColor(segments[s].mesh, <<1, 0, 0, 1>>))
    /\ call.op = "draw" =>
           \A s \in 1..Len(segments) :
               call.result[s] = CurrentDraw(segments[s].mesh)

\* C24, its case: a mesh that had been uploaded has been regenerated as a
\* looping by the edit of the last frame and drawn.
C24_RedrawnAfterEdit ==
    /\ call.op = "draw"
    /\ call.arg.was_pressed = {"Key4"}
    /\ edits >= 2
    /\ is_rendered(segments[1].mesh)

\* C30: once a focus change has reset the keyboard during the poll of a
\* frame, no key reports is_pressed in that frame or in a later one until a
\* press event for that key arrives after the reset, in whatever order the
\* press, release and focus events of the poll arrived.
C30_NoKeyPressedAfterReset ==
    call.op = "draw" =>
        \A key \in call.reset : ~KeyStateIsPressed(call.fields[key])

============================================================================
